---- MODULE Spec2Model ----
(***************************************************************************)
(* Spreadsheet ingestion pipeline of sistema-x: the client-side uploadFile *)
(* (DataImportContext.tsx), the preview and analyze-file serve handlers    *)
(* with handleError (ChatInterface.tsx), the cell editor and the paging of *)
(* DataPreview.tsx, the file list of ChatInterface.tsx, the two            *)
(* getFileType functions and createOrganization (useOrganization.ts).      *)
(* The record store, the blob store and the workbook                       *)
(* decoder are external collaborators: each awaited call to them is one    *)
(* atomic step that either succeeds or returns an error.                   *)
(***************************************************************************)
EXTENDS Integers, Sequences, FiniteSets, TLC

VARIABLES
  currentOrganization, \* useAuth().currentOrganization of the client session
  data_imports,        \* table data_imports: sequence of records, id = index
  storage,             \* bucket data_files: set of <<path, file>>
  data_file_columns,   \* table data_file_columns: sequence of descriptors
  uploads,             \* the uploadFile calls and where each stands
  analyses,            \* the analyze-file invocations and where each stands
  previewResponse,     \* response of the last preview invocation
  calls,               \* number of invocations started so far
  extraction,          \* schema extraction applied to one header row
  data,                \* DataPreview: the rows of the loaded page, as shown
  loadedData,          \* the rows of the page as the server returned them
  data_file_changes,   \* table data_file_changes: the audit log
  saves,               \* the handleSave calls and where each stands
  pageFetch,           \* one read-file-data request and its response
  preview,             \* DataPreview: fileId prop, page, totals, loading
  fetches,             \* the fetchData calls of DataPreview, in call order
  data_files,          \* table data_files: sequence of file records
  dataFilesBucket,     \* bucket data-files: set of <<path, file name>>
  fileUploads,         \* the handleFileUpload calls and where each stands
  deletedFiles,        \* ids of the records deleted from data_files
  files,               \* ChatInterface: the file ids listed, newest first
  selectedFiles,       \* ChatInterface: the selected file ids
  pendingFetches,      \* fetchFiles calls whose select has not returned
  currentImport,       \* DataImportProvider: <<id, record>> or <<>> for null
  analyzeFileCalls,    \* the client's analyzeFile calls and where each stands
  loading,             \* DataImportProvider: the loading flag
  organizations,       \* table organizations: the slugs of the stored rows
  useOrganization,     \* state of the useOrganization hook
  creations,           \* the createOrganization calls and where each stands
  typeChecks           \* extensions handed to both getFileType functions

pipelineVars == <<data_imports, storage, data_file_columns, uploads, analyses,
                  previewResponse, calls>>
editVars == <<data, loadedData, data_file_changes, saves, pageFetch,
              preview, fetches>>
chatVars == <<deletedFiles, files, selectedFiles, pendingFetches>>
uploaderVars == <<data_files, dataFilesBucket, fileUploads, chatVars>>
clientVars == <<currentImport, analyzeFileCalls, loading>>
sessionVars == <<currentOrganization, organizations, useOrganization,
                 creations>>
vars == <<sessionVars, typeChecks, pipelineVars, extraction, editVars,
          uploaderVars, clientVars>>

-----------------------------------------------------------------------------
(* Bounds of the model *)

MaxCalls == 2
MaxCols == 26
MaxRows == 2
MaxHeaders == 2
MaxPageRows == 1
MaxSaves == 2
MaxTotalRows == 6
MaxPage == 4
MaxPageSize == 3
MaxFileUploads == 2
MaxSampleRows == 2
MaxFetches == 3
MaxStoredFiles == 2
MaxFileFetches == 2
MaxTypeChecks == 2

(* Program constants *)

BATCH_SIZE == 25
SAMPLE_ROWS == 5
rowsPerPage == 50

-----------------------------------------------------------------------------
(* Values *)

NoOrganization == "no-organization"
Organizations == {"org1"}

NoPath == <<>>
NoMessage == <<>>
NoCount == -1
NoId == 0

Min(a, b) == IF a < b THEN a ELSE b
Max(a, b) == IF a > b THEN a ELSE b

(* A header name is <<"text", k>>, a name such as "col_k" that is no       *)
(* canonical array index, or <<"index", k>>, the decimal string of the     *)
(* integer k (a year, a code), which JavaScript treats as an integer key.  *)
TextName(k) == <<"text", k>>
IndexName(k) == <<"index", k>>
IsIndexName(h) == h[1] = "index"

(* Cell values as the decoder hands them out *)
NullCell == [t |-> "null"]
NumberCell(i, f) == [t |-> "number", int |-> i, frac |-> f]
BooleanCell(b) == [t |-> "boolean", b |-> b]
StringCell(s) == [t |-> "string", s |-> s]

UndefinedCell == [t |-> "undefined"]

-----------------------------------------------------------------------------
(* Type inference and schema extraction of the preview handler *)

(* !isNaN(Date.parse(s)) on the strings the model uses *)
DateParses(s) == s \in {"2024-01-01", "12/31/2024"}

SampleStrings == {"2024-01-01", "12/31/2024", "hello", ""}

(* JavaScript truthiness of a cell value *)
Truthy(sample) ==
  CASE sample.t = "null" -> FALSE
    [] sample.t = "undefined" -> FALSE
    [] sample.t = "number" -> ~(sample.int = 0 /\ sample.frac = 0)
    [] sample.t = "boolean" -> sample.b
    [] sample.t = "string" -> sample.s # ""
    [] OTHER -> TRUE

TypeTags == {"text", "integer", "numeric", "boolean", "timestamp"}

ClassifyTruthyFirst(sample) ==
  IF ~Truthy(sample) THEN "text"
  ELSE IF sample.t = "number"
       THEN (IF sample.frac = 0 THEN "integer" ELSE "numeric")
  ELSE IF sample.t = "boolean" THEN "boolean"
  ELSE IF sample.t = "string" /\ DateParses(sample.s) THEN "timestamp"
  ELSE "text"

(* let type = 'text'; if (typeof sample === 'number') ... *)
Classify(sample) ==
  IF sample.t = "number"
  THEN (IF sample.frac = 0 THEN "integer" ELSE "numeric")
  ELSE IF sample.t = "boolean" THEN "boolean"
  ELSE IF Truthy(sample) /\ sample.t = "string" /\ DateParses(sample.s)
       THEN "timestamp"
  ELSE "text"

(* sampleData[index]: undefined beyond the end of the row *)
SampleAt(sampleData, index) ==
  IF index \in DOMAIN sampleData THEN sampleData[index] ELSE UndefinedCell

(* sample?.toString() || '' *)
SampleText(sample) ==
  IF sample.t \in {"null", "undefined"} THEN StringCell("")
  ELSE IF sample.t = "string" THEN sample
  ELSE [t |-> "string", of |-> sample]

(* const columns = headers.map((header, index) => ...) *)
PreviewColumns(headers, sampleData) ==
  [index \in 1 .. Len(headers) |->
     [name |-> headers[index],
      type |-> Classify(SampleAt(sampleData, index)),
      sample |-> SampleText(SampleAt(sampleData, index))]]

-----------------------------------------------------------------------------
(* Column detection of the analyze handler *)

RECURSIVE SortAscending(_)
SortAscending(S) ==
  IF S = {} THEN <<>>
  ELSE LET m == CHOOSE x \in S : \A y \in S : x <= y
       IN <<m>> \o SortAscending(S \ {m})

(* Object.keys(row): the integer keys in ascending numeric order, then the *)
(* other keys in the order they were inserted. `inserted` is the order in  *)
(* which sheet_to_json assigned the keys, one per header cell, left to     *)
(* right.                                                                  *)
ObjectKeys(inserted) ==
  LET idx == {inserted[j][2] : j \in {i \in DOMAIN inserted : IsIndexName(inserted[i])}}
      sorted == SortAscending(idx)
  IN [i \in 1 .. Len(sorted) |-> IndexName(sorted[i])]
       \o SelectSeq(inserted, LAMBDA h : ~IsIndexName(h))

(* raw: false, defval: null: every cell comes back as its formatted text,  *)
(* a missing cell as null                                                  *)
FormatCell(cell) ==
  IF cell.t \in {"null", "undefined"} THEN NullCell
  ELSE IF cell.t = "string" THEN cell
  ELSE [t |-> "string", of |-> cell]

-----------------------------------------------------------------------------
(* Files *)

NoFile == [name |-> "", bytes |-> "none", headers |-> <<>>, nRows |-> 0]

NamesRow(n) == [c \in 1 .. n |-> TextName(c)]
YearsRow == <<TextName(1), IndexName(2024), IndexName(2023)>>

HeaderRows == {YearsRow, NamesRow(MaxCols)}

Files ==
  {[name |-> "bad.xlsx", bytes |-> "malformed", headers |-> <<>>, nRows |-> 0],
   [name |-> "nosheets.xlsx", bytes |-> "no-sheets", headers |-> <<>>, nRows |-> 0],
   [name |-> "header.csv", bytes |-> "workbook", headers |-> NamesRow(2),
    nRows |-> 0],
   [name |-> "db.accdb", bytes |-> "access", headers |-> <<>>, nRows |-> 0]}
  \cup {[name |-> "data.xlsx", bytes |-> "workbook", headers |-> h,
         nRows |-> MaxRows] : h \in HeaderRows}

(* file.name.split('.').pop() on the file names of the model *)
Extension(fileName) ==
  CASE fileName \in {"bad.xlsx", "nosheets.xlsx", "data.xlsx"} -> "xlsx"
    [] fileName = "header.csv" -> "csv"
    [] fileName = "db.accdb" -> "accdb"
    [] fileName = "legacy.mdb" -> "mdb"
    [] fileName = "notes.txt" -> "txt"
    [] fileName = "REPORT.XLSX" -> "XLSX"
    [] fileName = "README" -> "README"
    [] OTHER -> ""

(* extension.toLowerCase() *)
ToLowerCase(extension) ==
  CASE extension = "XLSX" -> "xlsx"
    [] extension = "README" -> "readme"
    [] OTHER -> extension

NoFileType == "null"

(* getFileType of FileUploader.tsx; the default case throws *)
UploaderGetFileType(extension) ==
  LET lower == ToLowerCase(extension)
  IN CASE lower = "csv" -> "csv"
       [] lower \in {"xls", "xlsx"} -> "excel"
       [] lower \in {"mdb", "accdb"} -> "access"
       [] lower = "json" -> "json"
       [] OTHER -> "throw"

(* getFileType of ChatInterface.tsx: fileTypes[extension.toLowerCase()]    *)
(* or null                                                                 *)
ChatGetFileType(extension) ==
  LET lower == ToLowerCase(extension)
  IN CASE lower = "json" -> "json"
       [] lower = "csv" -> "csv"
       [] lower \in {"xlsx", "xls"} -> "excel"
       [] lower = "accdb" -> "access"
       [] OTHER -> NoFileType

(* XLSX.read(buffer): what the decoder makes of the bytes. The handlers    *)
(* hand it every file, whatever its kind; of the bytes of an Access        *)
(* database it either throws or reads them as text, one column wide.       *)
Decodings(file) ==
  IF file.bytes = "access"
  THEN {[file EXCEPT !.bytes = "malformed"],
        [file EXCEPT !.bytes = "workbook", !.headers = NamesRow(1),
                     !.nRows = 1]}
  ELSE {file}

CellCycle ==
  <<StringCell("hello"), NumberCell(3, 0), NullCell, StringCell("2024-01-01"),
    BooleanCell(TRUE), NumberCell(3, 5)>>

(* the cell of data row r, column c of a workbook *)
CellOf(r, c) == CellCycle[((r + c) % Len(CellCycle)) + 1]

DataRow(file, r) == [c \in 1 .. Len(file.headers) |-> CellOf(r, c)]

(* XLSX.utils.sheet_to_json(firstSheet, { header: 1 }): the header row and *)
(* the data rows, each an array                                            *)
SheetRowCount(file) ==
  (IF file.headers = <<>> THEN 0 ELSE 1) + file.nRows

(* XLSX.utils.sheet_to_json(worksheet, { raw: false, defval: null }): one  *)
(* object per data row, its keys assigned in header order                  *)
JsonData(file) ==
  [r \in 1 .. file.nRows |->
     [inserted |-> file.headers,
      cells |-> [c \in 1 .. Len(file.headers) |-> FormatCell(CellOf(r, c))]]]

(* row[column] *)
RowValue(row, column) ==
  LET at == {c \in DOMAIN row.inserted : row.inserted[c] = column}
  IN IF at = {} THEN UndefinedCell ELSE row.cells[CHOOSE c \in at : TRUE]

-----------------------------------------------------------------------------
(* Import records *)

FilePathNoId(organizationId, importId, fileName) ==
  <<organizationId, fileName>>

(* `${currentOrganization.id}/${importData.id}/${file.name}` *)
FilePath(organizationId, importId, fileName) ==
  <<organizationId, importId, fileName>>

(* the record uploadFile inserts *)
PendingImport(organizationId, file) ==
  [organization_id |-> organizationId, name |-> file.name,
   status |-> "pending", storage_path |-> NoPath, error_message |-> NoMessage,
   row_count |-> NoCount, columns_metadata |-> <<>>]

(* the record the preview handler inserts *)
PreviewImport(organizationId, file, columns) ==
  [organization_id |-> organizationId, name |-> file.name,
   status |-> "analyzing", storage_path |-> NoPath, error_message |-> NoMessage,
   row_count |-> SheetRowCount(file) - 1, columns_metadata |-> columns]

(* .update({ storage_path: filePath, status: 'processing' }) *)
UploadedImport(rec, filePath) ==
  [rec EXCEPT !.storage_path = filePath, !.status = "processing"]

(* .update({ status: 'analyzing' }) *)
AnalyzingImport(rec) == [rec EXCEPT !.status = "analyzing"]

(* .update({ status: 'editing', row_count: jsonData.length }) *)
EditingImport(rec, rowCount) ==
  [rec EXCEPT !.status = "editing", !.row_count = rowCount]

(* handleError: .update({ status: 'error', error_message: errorMessage }) *)
ErrorImport(rec, errorMessage) ==
  [rec EXCEPT !.status = "error", !.error_message = errorMessage]

-----------------------------------------------------------------------------
(* uploadFile (DataImportContext.tsx) *)

IdleUpload ==
  [pc |-> "idle", file |-> NoFile, id |-> NoId, filePath |-> NoPath,
   updatedImport |-> <<>>, thrown |-> "", returned |-> NoId, trace |-> <<>>]

UploadFrame ==
  UNCHANGED <<sessionVars, typeChecks, data_file_columns, analyses, previewResponse,
              extraction, editVars, uploaderVars, analyzeFileCalls>>

(* if (!currentOrganization || !user) throw; otherwise the insert of the    *)
(* import record in status pending                                         *)
UploadInsert(u, file) ==
  /\ uploads[u].pc = "idle"
  /\ u > 1 => uploads[u - 1].pc # "idle"
  /\ calls < MaxCalls
  /\ calls' = calls + 1
  /\ \/ /\ currentOrganization = NoOrganization
        /\ uploads' = [uploads EXCEPT ![u] =
             [@ EXCEPT !.pc = "failed", !.thrown = "not-authenticated"]]
        /\ UNCHANGED <<data_imports, loading>>
     \/ /\ currentOrganization # NoOrganization
        /\ data_imports' =
             Append(data_imports, PendingImport(currentOrganization, file))
        /\ uploads' = [uploads EXCEPT ![u] =
             [@ EXCEPT !.pc = "store", !.file = file,
                       !.id = Len(data_imports) + 1,
                       !.trace = <<"insert">>]]
        /\ loading' = TRUE
     \/ /\ currentOrganization # NoOrganization
        /\ uploads' = [uploads EXCEPT ![u] =
             [@ EXCEPT !.pc = "failed", !.thrown = "importError"]]
        /\ loading' = FALSE
        /\ UNCHANGED data_imports
  /\ UNCHANGED <<storage, currentImport>>
  /\ UploadFrame

ContinueAfterUploadError(up) == [up EXCEPT !.pc = "update"]

(* if (uploadError) throw uploadError; the catch rethrows it *)
ThrowUploadError(up) == [up EXCEPT !.pc = "failed", !.thrown = "uploadError"]

(* supabase.storage.from('data_files').upload(filePath, file) *)
UploadStore(u) ==
  /\ uploads[u].pc = "store"
  /\ LET filePath == FilePath(currentOrganization, uploads[u].id,
                              uploads[u].file.name)
     IN \/ /\ storage' = storage \cup {<<filePath, uploads[u].file>>}
           /\ uploads' = [uploads EXCEPT ![u] =
                [@ EXCEPT !.pc = "update", !.filePath = filePath,
                          !.trace = Append(@, "store")]]
           /\ UNCHANGED loading
        \/ /\ uploads' = [uploads EXCEPT ![u] =
                ThrowUploadError([@ EXCEPT !.filePath = filePath,
                                           !.trace = Append(@, "store-failed")])]
           /\ loading' = FALSE
           /\ UNCHANGED storage
  /\ UNCHANGED <<data_imports, calls, currentImport>>
  /\ UploadFrame

(* the update of storage_path and status, setCurrentImport and the return  *)
(* of importData.id; finally setLoading(false)                             *)
UploadUpdate(u) ==
  /\ uploads[u].pc = "update"
  /\ LET id == uploads[u].id
         updated == UploadedImport(data_imports[id], uploads[u].filePath)
     IN \/ /\ data_imports' = [data_imports EXCEPT ![id] = updated]
           /\ uploads' = [uploads EXCEPT ![u] =
                [@ EXCEPT !.pc = "done", !.updatedImport = <<updated>>,
                          !.returned = id, !.trace = Append(@, "update")]]
           /\ currentImport' = <<id, updated>>
        \/ /\ uploads' = [uploads EXCEPT ![u] =
                [@ EXCEPT !.pc = "failed", !.thrown = "updateError",
                          !.trace = Append(@, "update-failed")]]
           /\ UNCHANGED <<data_imports, currentImport>>
  /\ loading' = FALSE
  /\ UNCHANGED <<storage, calls>>
  /\ UploadFrame

-----------------------------------------------------------------------------
(* The preview serve handler (ChatInterface.tsx, first serve) *)

PreviewError(message) == [status |-> 400, error |-> message, totalRows |-> 0]

(* one request: decode, extract the columns, insert into data_imports *)
PreviewServe(upload, organizationId) ==
  /\ calls < MaxCalls
  /\ calls' = calls + 1
  /\ \E file \in Decodings(upload) :
     \/ /\ file.bytes = "malformed"
        /\ previewResponse' = PreviewError(<<"decoder", file.name>>)
        /\ UNCHANGED data_imports
     \/ /\ file.bytes = "no-sheets"
        /\ previewResponse' = PreviewError(<<"No sheet found in the workbook">>)
        /\ UNCHANGED data_imports
     \/ /\ file.bytes = "workbook"
        /\ SheetRowCount(file) < 2
        /\ previewResponse' = PreviewError(
             <<"File must contain at least a header row and one data row">>)
        /\ UNCHANGED data_imports
     \/ /\ file.bytes = "workbook"
        /\ SheetRowCount(file) >= 2
        /\ \/ /\ data_imports' = Append(data_imports,
                   PreviewImport(organizationId, file,
                                 PreviewColumns(file.headers, DataRow(file, 1))))
              /\ previewResponse' =
                   [status |-> 200, error |-> NoMessage,
                    totalRows |-> SheetRowCount(file) - 1]
           \/ /\ previewResponse' = PreviewError(<<"uploadError">>)
              /\ UNCHANGED data_imports
  /\ UNCHANGED <<sessionVars, typeChecks, storage, data_file_columns, uploads,
                 analyses, extraction, editVars, uploaderVars, clientVars>>

-----------------------------------------------------------------------------
(* The analyze-file serve handler and handleError (ChatInterface.tsx) *)

IdleAnalysis ==
  [pc |-> "idle", fileId |-> NoId, fileData |-> <<>>, file |-> NoFile,
   columns |-> <<>>, rowCount |-> 0, i |-> 0, inserted |-> <<>>,
   errorMessage |-> NoMessage, status |-> 0, error |-> NoMessage]

AnalyzeFrame ==
  UNCHANGED <<sessionVars, typeChecks, uploads, previewResponse, extraction,
              editVars, uploaderVars, clientVars>>

AnalyzeStepFrame ==
  UNCHANGED <<sessionVars, typeChecks, uploads, previewResponse, extraction,
              editVars, uploaderVars, clientVars, calls>>

(* the catch at the top level: respond 500 with error.message *)
Respond500(an, message) ==
  [an EXCEPT !.pc = "done", !.status = 500, !.error = message]

(* await handleError(...) is pending; the throw follows it *)
CallHandleError(an, errorMessage, thrown) ==
  [an EXCEPT !.pc = "handleError", !.errorMessage = errorMessage,
             !.error = thrown]

(* the descriptors of one batch *)
ColumnsData(fileId, organizationId, columnBatch, sampleData) ==
  [k \in 1 .. Len(columnBatch) |->
     [file_id |-> fileId, organization_id |-> organizationId,
      original_name |-> columnBatch[k],
      sample_data |-> [r \in 1 .. Len(sampleData) |->
                         RowValue(sampleData[r], columnBatch[k])]]]

(* the fields of fileData the handler goes on to read *)
FileData(rec) ==
  [organization_id |-> rec.organization_id, name |-> rec.name,
   storage_path |-> rec.storage_path]

AnalyzeSelectThenHandleError(a, fileId) ==
  /\ analyses[a].pc = "idle"
  /\ a > 1 => analyses[a - 1].pc # "idle"
  /\ calls < MaxCalls
  /\ calls' = calls + 1
  /\ \/ /\ fileId \in DOMAIN data_imports
        /\ analyses' = [analyses EXCEPT ![a] =
             [@ EXCEPT !.pc = "markAnalyzing", !.fileId = fileId,
                       !.fileData = <<FileData(data_imports[fileId])>>]]
     \/ /\ analyses' = [analyses EXCEPT ![a] =
             CallHandleError([@ EXCEPT !.fileId = fileId],
                             <<"Arquivo nao encontrado">>,
                             <<"Arquivo nao encontrado">>)]
  /\ UNCHANGED <<data_imports, storage, data_file_columns>>
  /\ AnalyzeFrame

(* select('*').eq('id', fileId).single() *)
AnalyzeSelect(a, fileId) ==
  /\ analyses[a].pc = "idle"
  /\ a > 1 => analyses[a - 1].pc # "idle"
  /\ calls < MaxCalls
  /\ calls' = calls + 1
  /\ \/ /\ fileId \in DOMAIN data_imports
        /\ analyses' = [analyses EXCEPT ![a] =
             [@ EXCEPT !.pc = "markAnalyzing", !.fileId = fileId,
                       !.fileData = <<FileData(data_imports[fileId])>>]]
     \/ /\ analyses' = [analyses EXCEPT ![a] =
             Respond500([@ EXCEPT !.fileId = fileId],
                        <<"Arquivo nao encontrado">>)]
  /\ UNCHANGED <<data_imports, storage, data_file_columns>>
  /\ AnalyzeFrame

(* update({ status: 'analyzing' }); on error: throw updateError *)
AnalyzeMarkAnalyzing(a) ==
  /\ analyses[a].pc = "markAnalyzing"
  /\ LET id == analyses[a].fileId
     IN \/ /\ data_imports' =
                [data_imports EXCEPT ![id] = AnalyzingImport(@)]
           /\ analyses' = [analyses EXCEPT ![a] = [@ EXCEPT !.pc = "download"]]
        \/ /\ analyses' = [analyses EXCEPT ![a] =
                Respond500(@, <<"updateError">>)]
           /\ UNCHANGED data_imports
  /\ UNCHANGED <<storage, data_file_columns>>
  /\ AnalyzeStepFrame

(* what follows the download: fileBuffer.arrayBuffer(), XLSX.read, the     *)
(* SheetNames check, sheet_to_json, the empty check and                    *)
(* const columns = Object.keys(jsonData[0] || {})                          *)
Decoded(an, file) ==
  LET jsonData == JsonData(file)
  IN IF file.bytes = "malformed"
     THEN CallHandleError(an, <<"Erro ao ler arquivo Excel">>,
                          <<"decoder", file.name>>)
     ELSE IF file.bytes = "no-sheets"
     THEN Respond500(an, <<"Arquivo Excel nao contem planilhas">>)
     ELSE IF Len(jsonData) = 0
     THEN CallHandleError(an, <<"Arquivo esta vazio">>,
                          <<"Arquivo esta vazio">>)
     ELSE [an EXCEPT !.pc = IF Len(jsonData[1].inserted) = 0
                            THEN "final" ELSE "batch",
                     !.columns = ObjectKeys(jsonData[1].inserted),
                     !.rowCount = Len(jsonData), !.i = 0]

(* storage.from('data_files').download(fileData.storage_path) and the      *)
(* local steps up to the first write                                       *)
AnalyzeDownload(a) ==
  /\ analyses[a].pc = "download"
  /\ LET path == analyses[a].fileData[1].storage_path
         blobs == {b \in storage : b[1] = path}
     IN \/ \E b \in blobs :
             \/ \E file \in Decodings(b[2]) :
                  analyses' = [analyses EXCEPT ![a] =
                    Decoded([@ EXCEPT !.file = file], file)]
             \/ analyses' = [analyses EXCEPT ![a] =
                  CallHandleError([@ EXCEPT !.file = b[2]],
                                  <<"Erro ao converter arquivo">>,
                                  <<"arrayBufferError">>)]
        \/ analyses' = [analyses EXCEPT ![a] =
             CallHandleError(@, <<"Erro ao baixar arquivo: ", "downloadError">>,
                             <<"downloadError">>)]
  /\ UNCHANGED <<data_imports, storage, data_file_columns>>
  /\ AnalyzeStepFrame

(* one turn of the loop: insert columns.slice(i, i + BATCH_SIZE) *)
AnalyzeBatch(a) ==
  /\ analyses[a].pc = "batch"
  /\ LET an == analyses[a]
         columnBatch == SubSeq(an.columns, an.i + 1,
                               Min(an.i + BATCH_SIZE, Len(an.columns)))
         sampleData == SubSeq(JsonData(an.file), 1,
                              Min(SAMPLE_ROWS, an.rowCount))
         columnsData == ColumnsData(an.fileId, an.fileData[1].organization_id,
                                    columnBatch, sampleData)
     IN \/ /\ data_file_columns' = data_file_columns \o columnsData
           /\ analyses' = [analyses EXCEPT ![a] =
                [@ EXCEPT !.i = an.i + BATCH_SIZE,
                          !.inserted = @ \o columnBatch,
                          !.pc = IF an.i + BATCH_SIZE < Len(an.columns)
                                 THEN "batch" ELSE "final"]]
        \/ /\ analyses' = [analyses EXCEPT ![a] =
                CallHandleError(@, <<"Erro ao processar colunas: ", "batchError">>,
                                <<"batchError">>)]
           /\ UNCHANGED data_file_columns
  /\ UNCHANGED <<data_imports, storage>>
  /\ AnalyzeStepFrame

(* update({ status: 'editing', row_count: jsonData.length }); on error:    *)
(* throw finalUpdateError                                                  *)
AnalyzeFinal(a) ==
  /\ analyses[a].pc = "final"
  /\ LET id == analyses[a].fileId
     IN \/ /\ data_imports' = [data_imports EXCEPT ![id] =
                EditingImport(@, analyses[a].rowCount)]
           /\ analyses' = [analyses EXCEPT ![a] =
                [@ EXCEPT !.pc = "done", !.status = 200]]
        \/ /\ analyses' = [analyses EXCEPT ![a] =
                Respond500(@, <<"finalUpdateError">>)]
           /\ UNCHANGED data_imports
  /\ UNCHANGED <<storage, data_file_columns>>
  /\ AnalyzeStepFrame

(* handleError: the update is awaited and its result is not looked at;     *)
(* then the caller throws and the top-level catch responds 500             *)
HandleError(a) ==
  /\ analyses[a].pc = "handleError"
  /\ LET id == analyses[a].fileId
     IN \/ data_imports' = [data_imports EXCEPT ![id] =
             ErrorImport(@, analyses[a].errorMessage)]
        \/ UNCHANGED data_imports
  /\ analyses' = [analyses EXCEPT ![a] = Respond500(@, @.error)]
  /\ UNCHANGED <<storage, data_file_columns>>
  /\ AnalyzeStepFrame

-----------------------------------------------------------------------------
(* analyzeFile (DataImportContext.tsx): the client side of an analyze-file *)
(* invocation                                                              *)

NoImport == <<>>

AnalyzeFileFrame ==
  UNCHANGED <<sessionVars, typeChecks, pipelineVars, extraction, editVars,
              uploaderVars>>

(* the response of functions.invoke('analyze-file') arrives: a response    *)
(* that is not 2xx comes back as error and is thrown to the catch, and the *)
(* finally block runs setLoading(false)                                    *)
AnalyzeFileResponse(a) ==
  /\ analyzeFileCalls[a] = "invoke"
  /\ analyses[a].pc = "done"
  /\ analyzeFileCalls' = [analyzeFileCalls EXCEPT ![a] =
       IF analyses[a].status = 200 THEN "fetch" ELSE "caught"]
  /\ loading' = (analyses[a].status = 200 /\ loading)
  /\ UNCHANGED currentImport
  /\ AnalyzeFileFrame

(* select('*').eq('id', fileId).single() and setCurrentImport(importData); *)
(* on fetchError the catch shows a toast                                   *)
AnalyzeFileFetch(a) ==
  /\ analyzeFileCalls[a] = "fetch"
  /\ LET id == analyses[a].fileId
     IN \/ /\ id \in DOMAIN data_imports
           /\ currentImport' = <<id, data_imports[id]>>
           /\ analyzeFileCalls' = [analyzeFileCalls EXCEPT ![a] = "done"]
        \/ /\ analyzeFileCalls' = [analyzeFileCalls EXCEPT ![a] = "caught"]
           /\ UNCHANGED currentImport
  /\ loading' = FALSE
  /\ AnalyzeFileFrame

-----------------------------------------------------------------------------
(* Schema extraction as a function of one header row and one sample row *)

HeaderNames == {TextName(1), TextName(2), IndexName(2023), IndexName(2024)}

SampleCells ==
  {NullCell, NumberCell(3, 0), NumberCell(0, 0), NumberCell(3, 5),
   BooleanCell(TRUE), BooleanCell(FALSE)}
  \cup {StringCell(s) : s \in SampleStrings}

SeqsOf(S, n) == [1 .. n -> S]

(* the preview handler: headers = jsonData[0], sampleData = jsonData[1],   *)
(* previewData = jsonData.slice(1, 6)                                      *)
ExtractPreview ==
  /\ extraction.pc = "input"
  /\ extraction' = [extraction EXCEPT
       !.pc = "preview",
       !.columns = PreviewColumns(extraction.headers, extraction.sampleData)]
  /\ UNCHANGED <<sessionVars, typeChecks, pipelineVars, editVars, uploaderVars,
                 clientVars>>

(* the analyze handler: the keys of the first row object, whose header     *)
(* cells the decoder has made distinct                                     *)
ExtractAnalyze ==
  /\ extraction.pc = "input"
  /\ \A i, j \in DOMAIN extraction.headers :
       extraction.headers[i] = extraction.headers[j] => i = j
  /\ LET row == [inserted |-> extraction.headers,
                 cells |-> [c \in DOMAIN extraction.headers |->
                              FormatCell(SampleAt(extraction.sampleData, c))]]
     IN extraction' = [extraction EXCEPT
          !.pc = "analyze",
          !.columns = ColumnsData(1, "org1", ObjectKeys(row.inserted), <<row>>)]
  /\ UNCHANGED <<sessionVars, typeChecks, pipelineVars, editVars, uploaderVars,
                 clientVars>>

(* the header name a descriptor carries *)
DescriptorName(d) ==
  IF "name" \in DOMAIN d THEN d.name ELSE d.original_name

-----------------------------------------------------------------------------
(* DataPreview.tsx: the editable page and handleSave *)

NullValue == "NULL"
EditColumns == {"name"}
LoadedValues == {NullValue, "a"}
TypedValues == {"", "b"}
FileId == "file1"

(* value === null ? '' : String(value) *)
Displayed(value) == IF value = NullValue THEN "" ELSE value

EditFrame ==
  UNCHANGED <<sessionVars, typeChecks, pipelineVars, extraction, loadedData,
              pageFetch, preview, fetches, uploaderVars, clientVars>>

(* onChange: newData[rowIndex][columnName] = e.target.value; setData *)
OnChange(r, columnName, value) ==
  /\ ~preview.loading
  /\ r \in DOMAIN data
  /\ data' = [data EXCEPT ![r][columnName] = value]
  /\ UNCHANGED <<data_file_changes, saves>>
  /\ EditFrame

(* onBlur -> handleSave(rowIndex, columnName, e.target.value) up to the    *)
(* insert request: the local rows are replaced first, the insert carries   *)
(* old_value: data[rowIndex][columnName]                                   *)
HandleSave(r, columnName) ==
  /\ ~preview.loading
  /\ r \in DOMAIN data
  /\ Len(saves) < MaxSaves
  /\ LET value == Displayed(data[r][columnName])
     IN IF currentOrganization = NoOrganization
        THEN /\ saves' = Append(saves,
                  [pc |-> "no-organization", row |-> r,
                   rowNumber |-> (preview.page - 1) * rowsPerPage + r,
                   change |-> [file_id |-> preview.fileId, row_id |-> ToString(r - 1),
                               column_name |-> columnName,
                               old_value |-> data[r][columnName],
                               new_value |-> value,
                               organization_id |-> NoOrganization]])
             /\ UNCHANGED data
        ELSE /\ data' = [data EXCEPT ![r][columnName] = value]
             /\ saves' = Append(saves,
                  [pc |-> "insert", row |-> r,
                   rowNumber |-> (preview.page - 1) * rowsPerPage + r,
                   change |-> [file_id |-> preview.fileId, row_id |-> ToString(r - 1),
                               column_name |-> columnName,
                               old_value |-> data[r][columnName],
                               new_value |-> value,
                               organization_id |-> currentOrganization]])
  /\ UNCHANGED data_file_changes
  /\ EditFrame

SaveInsertedOverwriting(k) ==
  /\ k \in DOMAIN saves
  /\ saves[k].pc = "insert"
  /\ data_file_changes' = <<saves[k].change>>
  /\ saves' = [saves EXCEPT ![k].pc = "saved"]
  /\ UNCHANGED data
  /\ EditFrame

(* the insert into data_file_changes succeeds: toast "Sucesso" *)
SaveInserted(k) ==
  /\ k \in DOMAIN saves
  /\ saves[k].pc = "insert"
  /\ data_file_changes' = Append(data_file_changes, saves[k].change)
  /\ saves' = [saves EXCEPT ![k].pc = "saved"]
  /\ UNCHANGED data
  /\ EditFrame

(* the insert fails: the catch shows a toast, the rows stay as they are *)
SaveFailed(k) ==
  /\ k \in DOMAIN saves
  /\ saves[k].pc = "insert"
  /\ saves' = [saves EXCEPT ![k].pc = "failed"]
  /\ UNCHANGED <<data, data_file_changes>>
  /\ EditFrame

-----------------------------------------------------------------------------
(* handleFileUpload of FileUploader.tsx and of ChatInterface.tsx: the      *)
(* bucket data-files and the table data_files                              *)

UploadNames ==
  {"data.xlsx", "header.csv", "db.accdb", "legacy.mdb", "notes.txt",
   "REPORT.XLSX", "README", "trailing."}

UploaderFrame ==
  UNCHANGED <<sessionVars, typeChecks, pipelineVars, extraction, editVars,
              clientVars>>

(* FileUploader.handleFileUpload up to the end of the storage upload: the  *)
(* guard, the extension, the path and                                      *)
(* storage.from('data-files').upload(filePath, file)                       *)
UploaderUpload(fileName) ==
  /\ Len(fileUploads) < MaxFileUploads
  /\ LET fileExt == Extension(fileName)
         filePath == <<currentOrganization, Len(fileUploads) + 1, fileExt>>
         call == [handler |-> "FileUploader", fileName |-> fileName,
                  fileExt |-> fileExt, filePath |-> <<>>, fileType |-> NoFileType,
                  pc |-> "return", toast |-> ""]
     IN IF currentOrganization = NoOrganization
        THEN /\ fileUploads' = Append(fileUploads, call)
             /\ UNCHANGED dataFilesBucket
        ELSE IF fileExt = ""
        THEN /\ fileUploads' = Append(fileUploads,
                  [call EXCEPT !.pc = "caught", !.toast = "Erro no upload"])
             /\ UNCHANGED dataFilesBucket
        ELSE \/ /\ dataFilesBucket' = dataFilesBucket \cup {<<filePath, fileName>>}
                /\ fileUploads' = Append(fileUploads,
                     [call EXCEPT !.pc = "insert", !.filePath = filePath])
             \/ /\ fileUploads' = Append(fileUploads,
                     [call EXCEPT !.pc = "caught", !.toast = "Erro no upload"])
                /\ UNCHANGED dataFilesBucket
  /\ UNCHANGED <<data_files, chatVars>>
  /\ UploaderFrame

(* FileUploader.handleFileUpload from the insert on: getFileType(fileExt)  *)
(* is evaluated for the record and throws on an unknown extension          *)
UploaderInsert(k) ==
  /\ k \in DOMAIN fileUploads
  /\ fileUploads[k].handler = "FileUploader"
  /\ fileUploads[k].pc = "insert"
  /\ LET call == fileUploads[k]
         fileType == UploaderGetFileType(call.fileExt)
     IN IF fileType = "throw"
        THEN /\ fileUploads' = [fileUploads EXCEPT ![k] =
                  [@ EXCEPT !.pc = "caught", !.toast = "Erro no upload"]]
             /\ UNCHANGED data_files
        ELSE \/ /\ data_files' = Append(data_files,
                     [organization_id |-> currentOrganization,
                      file_name |-> call.fileName, file_path |-> call.filePath,
                      file_type |-> fileType, status |-> "default"])
                /\ fileUploads' = [fileUploads EXCEPT ![k] =
                     [@ EXCEPT !.pc = "done", !.fileType = fileType,
                               !.toast = "Arquivo enviado com sucesso"]]
             \/ /\ fileUploads' = [fileUploads EXCEPT ![k] =
                     [@ EXCEPT !.pc = "caught", !.fileType = fileType,
                               !.toast = "Erro no upload"]]
                /\ UNCHANGED data_files
  /\ UNCHANGED <<dataFilesBucket, chatVars>>
  /\ UploaderFrame

(* ChatInterface.handleFileUpload up to the end of the storage upload: the *)
(* guards on the file, the extension and the file type, then               *)
(* storage.from('data-files').upload(fileName, file)                       *)
ChatUpload(fileName) ==
  /\ Len(fileUploads) < MaxFileUploads
  /\ LET fileExt == ToLowerCase(Extension(fileName))
         fileType == ChatGetFileType(fileExt)
         filePath == <<Len(fileUploads) + 1, fileExt>>
         call == [handler |-> "ChatInterface", fileName |-> fileName,
                  fileExt |-> fileExt, filePath |-> <<>>, fileType |-> fileType,
                  pc |-> "return", toast |-> ""]
     IN IF currentOrganization = NoOrganization
        THEN /\ fileUploads' = Append(fileUploads, call)
             /\ UNCHANGED dataFilesBucket
        ELSE IF fileExt = ""
        THEN /\ fileUploads' = Append(fileUploads,
                  [call EXCEPT !.toast = "Arquivo sem extensao"])
             /\ UNCHANGED dataFilesBucket
        ELSE IF fileType = NoFileType
        THEN /\ fileUploads' = Append(fileUploads,
                  [call EXCEPT !.toast = "Tipo de arquivo nao suportado"])
             /\ UNCHANGED dataFilesBucket
        ELSE \/ /\ dataFilesBucket' = dataFilesBucket \cup {<<filePath, fileName>>}
                /\ fileUploads' = Append(fileUploads,
                     [call EXCEPT !.pc = "insert", !.filePath = filePath])
             \/ /\ fileUploads' = Append(fileUploads,
                     [call EXCEPT !.pc = "caught", !.toast = "Erro no upload"])
                /\ UNCHANGED dataFilesBucket
  /\ UNCHANGED <<data_files, chatVars>>
  /\ UploaderFrame

(* fetchFiles(): returns at once without an organization, otherwise the    *)
(* select on data_files is sent                                            *)
FetchFiles ==
  pendingFetches' = IF currentOrganization = NoOrganization
                    THEN pendingFetches ELSE pendingFetches + 1

(* ChatInterface.handleFileUpload from the insert on; after a successful   *)
(* insert the list is refreshed with fetchFiles()                          *)
ChatInsert(k) ==
  /\ k \in DOMAIN fileUploads
  /\ fileUploads[k].handler = "ChatInterface"
  /\ fileUploads[k].pc = "insert"
  /\ LET call == fileUploads[k]
     IN \/ /\ data_files' = Append(data_files,
                [organization_id |-> currentOrganization,
                 file_name |-> call.fileName, file_path |-> call.filePath,
                 file_type |-> call.fileType, status |-> "pending"])
           /\ fileUploads' = [fileUploads EXCEPT ![k] =
                [@ EXCEPT !.pc = "done",
                          !.toast = "Arquivo enviado com sucesso"]]
           /\ FetchFiles
        \/ /\ fileUploads' = [fileUploads EXCEPT ![k] =
                [@ EXCEPT !.pc = "caught", !.toast = "Erro no upload"]]
           /\ UNCHANGED <<data_files, pendingFetches>>
  /\ UNCHANGED <<dataFilesBucket, deletedFiles, files, selectedFiles>>
  /\ UploaderFrame

-----------------------------------------------------------------------------
(* ChatInterface.tsx: the file list, the selection and handleDeleteFile *)

ChatFrame ==
  UNCHANGED <<sessionVars, typeChecks, pipelineVars, extraction, editVars,
              clientVars, data_files, dataFilesBucket, fileUploads>>

(* select('*').eq('organization_id', id).order('created_at', descending):  *)
(* the ids of the records of the organization, newest first                *)
SelectFiles(organizationId) ==
  LET ids == {i \in DOMAIN data_files :
                /\ i \notin deletedFiles
                /\ data_files[i].organization_id = organizationId}
      ascending == SortAscending(ids)
  IN [i \in 1 .. Len(ascending) |-> ascending[Len(ascending) + 1 - i]]

(* the select of a fetchFiles call returns: setFiles(data || []), or the   *)
(* error is logged and the list stays as it is                             *)
FetchFilesResponse ==
  /\ pendingFetches > 0
  /\ pendingFetches' = pendingFetches - 1
  /\ \/ files' = SelectFiles(currentOrganization)
     \/ UNCHANGED files
  /\ UNCHANGED <<deletedFiles, selectedFiles>>
  /\ ChatFrame

(* handleDeleteFile(fileId) from the delete button of a listed file:       *)
(* delete().eq('id', fileId), then the toast and fetchFiles(); on error    *)
(* only the toast                                                          *)
HandleDeleteFile(fileId) ==
  /\ \E i \in DOMAIN files : files[i] = fileId
  /\ pendingFetches < MaxFileFetches
  /\ \/ /\ deletedFiles' = deletedFiles \cup {fileId}
        /\ FetchFiles
     \/ UNCHANGED <<deletedFiles, pendingFetches>>
  /\ UNCHANGED <<files, selectedFiles>>
  /\ ChatFrame

(* prev.includes(fileId) ? prev.filter(id => id !== fileId)                *)
(*                       : [...prev, fileId]                               *)
Toggle(prev, fileId) ==
  IF \E i \in DOMAIN prev : prev[i] = fileId
  THEN SelectSeq(prev, LAMBDA id : id # fileId)
  ELSE Append(prev, fileId)

(* handleToggleFileSelect(fileId) from the checkbox of a listed file *)
HandleToggleFileSelect(fileId) ==
  /\ \E i \in DOMAIN files : files[i] = fileId
  /\ selectedFiles' = Toggle(selectedFiles, fileId)
  /\ UNCHANGED <<deletedFiles, files, pendingFetches>>
  /\ ChatFrame

-----------------------------------------------------------------------------
(* read-file-data: the page service DataPreview.fetchData invokes *)

Ceil(a, b) == (a + b - 1) \div b

(* the stored rows of an import, each known by its position *)
StoredRows(totalRows) == [i \in 1 .. totalRows |-> i]

GetPageShifted(rows, pageNumber, pageSize) ==
  [rows |-> SubSeq(rows, pageNumber * pageSize + 1,
                   Min((pageNumber + 1) * pageSize, Len(rows))),
   totalRows |-> Len(rows),
   totalPages |-> Ceil(Len(rows), pageSize)]

(* getPage(importId, pageNumber, pageSize): the window of pageSize rows    *)
(* that starts after the first (pageNumber - 1) * pageSize rows            *)
GetPage(rows, pageNumber, pageSize) ==
  [rows |-> SubSeq(rows, (pageNumber - 1) * pageSize + 1,
                   Min(pageNumber * pageSize, Len(rows))),
   totalRows |-> Len(rows),
   totalPages |-> Ceil(Len(rows), pageSize)]

NoPage == [rows |-> <<>>, totalRows |-> 0, totalPages |-> 0]

(* one invocation of read-file-data with body { fileId, page, pageSize } *)
ReadFileData ==
  /\ pageFetch.pc = "request"
  /\ pageFetch' = [pageFetch EXCEPT
       !.pc = "response",
       !.fileData = GetPage(StoredRows(pageFetch.stored), pageFetch.page,
                            pageFetch.pageSize)]
  /\ UNCHANGED <<sessionVars, typeChecks, pipelineVars, extraction, data,
                 loadedData, data_file_changes, saves, preview, fetches,
                 uploaderVars, clientVars>>

-----------------------------------------------------------------------------
(* DataPreview.tsx: paging, the fileId prop and fetchData *)

PreviewFiles == {"file1", "file2"}

(* the number of rows the store holds for an import *)
StoredCount(id) == IF id = "file1" THEN 2 * rowsPerPage + 1 ELSE 10

(* the row at position i of an import, as read-file-data returns it *)
RowOf(id, i) == [c \in EditColumns |-> id \o "-" \o ToString(i)]

(* useState defaults of the component for a fileId *)
InitialPreview(id) ==
  [fileId |-> id, page |-> 1, totalRows |-> 0, totalPages |-> 1,
   loading |-> FALSE]

PreviewFrame ==
  UNCHANGED <<sessionVars, typeChecks, pipelineVars, extraction, pageFetch,
              data_file_changes, saves, uploaderVars, clientVars>>

(* useEffect(() => fetchData(), [page, fileId]): fetchData starts with     *)
(* setLoading(true) and sends { fileId, page, pageSize: rowsPerPage }      *)
FetchData(next) ==
  /\ Len(fetches) < MaxFetches
  /\ preview' = [next EXCEPT !.loading = TRUE]
  /\ fetches' = Append(fetches, [fileId |-> next.fileId, page |-> next.page,
                                 pc |-> "request"])
  /\ UNCHANGED <<data, loadedData>>
  /\ PreviewFrame

(* setPage(p => Math.max(1, p - 1)), disabled when page === 1 *)
ClickPrevious ==
  /\ preview.page # 1
  /\ FetchData([preview EXCEPT !.page = Max(1, preview.page - 1)])

(* setPage(p => Math.min(totalPages, p + 1)), disabled when               *)
(* page === totalPages                                                     *)
ClickNext ==
  /\ preview.page # preview.totalPages
  /\ FetchData([preview EXCEPT
                  !.page = Min(preview.totalPages, preview.page + 1)])

(* the parent renders the component with another fileId: the state of the  *)
(* component is kept, the effect runs again                                *)
SetFileId(id) ==
  /\ id # preview.fileId
  /\ FetchData([preview EXCEPT !.fileId = id])

(* the invocation of fetch k returns: setData, setTotalRows,               *)
(* setTotalPages, then setLoading(false)                                   *)
FetchResponse(k) ==
  /\ k \in DOMAIN fetches
  /\ fetches[k].pc = "request"
  /\ LET fileData == GetPage(StoredRows(StoredCount(fetches[k].fileId)),
                             fetches[k].page, rowsPerPage)
         rows == [i \in 1 .. Len(fileData.rows) |->
                    RowOf(fetches[k].fileId, fileData.rows[i])]
     IN /\ data' = rows
        /\ loadedData' = rows
        /\ preview' = [preview EXCEPT !.totalRows = fileData.totalRows,
                                      !.totalPages = fileData.totalPages,
                                      !.loading = FALSE]
  /\ fetches' = [fetches EXCEPT ![k].pc = "done"]
  /\ PreviewFrame

(* the invocation of fetch k fails: toast, then setLoading(false) *)
FetchFailed(k) ==
  /\ k \in DOMAIN fetches
  /\ fetches[k].pc = "request"
  /\ preview' = [preview EXCEPT !.loading = FALSE]
  /\ fetches' = [fetches EXCEPT ![k].pc = "failed"]
  /\ UNCHANGED <<data, loadedData>>
  /\ PreviewFrame

-----------------------------------------------------------------------------
(* useOrganization.ts: createOrganization and generateUniqueSlug *)

OrganizationNames == {"Acme", "ACME!", "Acme 1"}

(* name.toLowerCase().replace(/[^a-z0-9]+/g, '-').replace(/(^-|-$)/g, '') *)
BaseSlug(name) ==
  CASE name = "Acme" -> "acme"
    [] name = "ACME!" -> "acme"
    [] name = "Acme 1" -> "acme-1"
    [] OTHER -> ""

(* `${baseSlug}-${counter}` *)
NumberedSlug(baseSlug, counter) == baseSlug \o "-" \o ToString(counter)

NoSlug == ""

IdleCreation ==
  [pc |-> "idle", name |-> "", slug |-> NoSlug, counter |-> 1,
   p_slug |-> NoSlug, thrown |-> FALSE]

InitialUseOrganization ==
  [loading |-> FALSE, organizations |-> {},
   currentOrganization |-> NoOrganization]

OrganizationFrame ==
  UNCHANGED <<currentOrganization, typeChecks, pipelineVars, extraction, editVars,
              uploaderVars, clientVars>>

(* the catch of createOrganization: toast, throw error, and the finally    *)
(* block with setLoading(false)                                            *)
CreationCaught(c) ==
  /\ creations' = [creations EXCEPT ![c] = [@ EXCEPT !.pc = "failed",
                                                    !.thrown = TRUE]]
  /\ useOrganization' = [useOrganization EXCEPT !.loading = FALSE]

(* createOrganization(name) up to the first select of generateUniqueSlug:  *)
(* setLoading(true), auth.getUser(), the base slug                         *)
CreateOrganization(c, name) ==
  /\ creations[c].pc = "idle"
  /\ c > 1 => creations[c - 1].pc # "idle"
  /\ \/ /\ creations' = [creations EXCEPT ![c] =
             [@ EXCEPT !.pc = "select", !.name = name,
                       !.slug = BaseSlug(name)]]
        /\ useOrganization' = [useOrganization EXCEPT !.loading = TRUE]
     \/ /\ creations' = [creations EXCEPT ![c] =
             [@ EXCEPT !.pc = "failed", !.name = name, !.thrown = TRUE]]
        /\ useOrganization' = [useOrganization EXCEPT !.loading = FALSE]
  /\ UNCHANGED organizations
  /\ OrganizationFrame

(* one turn of the loop of generateUniqueSlug: the select of the slug      *)
(* finds no row (PGRST116) and the slug is returned, or finds a row and    *)
(* the next numbered slug is tried, or fails and the error is thrown       *)
GenerateUniqueSlug(c) ==
  /\ creations[c].pc = "select"
  /\ \/ /\ creations[c].slug \notin organizations
        /\ creations' = [creations EXCEPT ![c].pc = "rpc"]
        /\ UNCHANGED useOrganization
     \/ /\ creations[c].slug \in organizations
        /\ creations' = [creations EXCEPT ![c] =
             [@ EXCEPT !.slug = NumberedSlug(BaseSlug(creations[c].name),
                                             creations[c].counter),
                       !.counter = @ + 1]]
        /\ UNCHANGED useOrganization
     \/ CreationCaught(c)
  /\ UNCHANGED organizations
  /\ OrganizationFrame

(* rpc('create_organization_with_owner', { p_name, p_slug, p_user_id }):   *)
(* the row is stored and fetchOrganizations starts with setLoading(true),  *)
(* or the procedure fails and the error is thrown                          *)
CreateRpc(c) ==
  /\ creations[c].pc = "rpc"
  /\ \/ /\ organizations' = organizations \cup {creations[c].slug}
        /\ creations' = [creations EXCEPT ![c] =
             [@ EXCEPT !.pc = "fetch", !.p_slug = creations[c].slug]]
        /\ useOrganization' = [useOrganization EXCEPT !.loading = TRUE]
     \/ /\ creations' = [creations EXCEPT ![c] =
             [@ EXCEPT !.pc = "failed", !.p_slug = creations[c].slug,
                       !.thrown = TRUE]]
        /\ useOrganization' = [useOrganization EXCEPT !.loading = FALSE]
        /\ UNCHANGED organizations
  /\ OrganizationFrame

(* await fetchOrganizations(): setOrganizations(data) and                  *)
(* setCurrentOrganization(data[0]), or a toast on error; setLoading(false) *)
(* in its finally block and again in the one of createOrganization         *)
FetchOrganizations(c) ==
  /\ creations[c].pc = "fetch"
  /\ creations' = [creations EXCEPT ![c].pc = "done"]
  /\ \/ \E first \in organizations :
          useOrganization' = [loading |-> FALSE,
                              organizations |-> organizations,
                              currentOrganization |-> first]
     \/ useOrganization' = [useOrganization EXCEPT !.loading = FALSE]
  /\ UNCHANGED organizations
  /\ OrganizationFrame

-----------------------------------------------------------------------------
(* The two getFileType functions on one extension *)

Extensions ==
  {"csv", "xls", "xlsx", "mdb", "accdb", "json", "txt", "XLSX", "README", ""}

(* both functions are called with the extension and what each one gives    *)
(* is kept                                                                 *)
GetFileTypes(extension) ==
  /\ Len(typeChecks) < MaxTypeChecks
  /\ typeChecks' = Append(typeChecks,
       [extension |-> extension,
        uploader |-> UploaderGetFileType(extension),
        chat |-> ChatGetFileType(extension)])
  /\ UNCHANGED <<sessionVars, pipelineVars, extraction, editVars,
                 uploaderVars, clientVars>>

-----------------------------------------------------------------------------
(* Specifications *)

TypeChecksOff == typeChecks = <<>>

OrganizationsOff ==
  /\ organizations = {}
  /\ useOrganization = InitialUseOrganization
  /\ creations = [c \in 1 .. MaxCalls |-> IdleCreation]

PipelineIdle ==
  /\ data_file_columns = <<>>
  /\ uploads = [u \in 1 .. MaxCalls |-> IdleUpload]
  /\ analyses = [a \in 1 .. MaxCalls |-> IdleAnalysis]
  /\ previewResponse = [status |-> 0, error |-> NoMessage, totalRows |-> 0]
  /\ calls = 0

PipelineInit ==
  /\ data_imports = <<>>
  /\ storage = {}
  /\ PipelineIdle

(* The record store and the blob store outlive the sessions: they are      *)
(* empty, or hold one import that an earlier uploadFile call completed.    *)
StoreInit ==
  \/ /\ data_imports = <<>>
     /\ storage = {}
  \/ \E org \in Organizations, file \in Files :
       LET filePath == FilePath(org, 1, file.name)
       IN /\ data_imports =
               <<UploadedImport(PendingImport(org, file), filePath)>>
          /\ storage = {<<filePath, file>>}

ExtractionOff ==
  extraction = [pc |-> "off", headers |-> <<>>, sampleData |-> <<>>,
                previewData |-> <<>>, columns |-> <<>>]

PageOff ==
  pageFetch = [pc |-> "off", stored |-> 0, page |-> 1, pageSize |-> 1,
               fileData |-> NoPage]

PreviewOff ==
  /\ preview = InitialPreview(FileId)
  /\ fetches = <<>>

ClientIdle ==
  analyzeFileCalls = [a \in 1 .. MaxCalls |-> "invoke"]

ClientOff ==
  /\ currentImport = NoImport
  /\ ClientIdle
  /\ loading = FALSE

ChatOff ==
  /\ deletedFiles = {}
  /\ files = <<>>
  /\ selectedFiles = <<>>
  /\ pendingFetches = 0

UploaderOff ==
  /\ data_files = <<>>
  /\ dataFilesBucket = {}
  /\ fileUploads = <<>>
  /\ ChatOff

EditOff ==
  /\ PageOff
  /\ PreviewOff
  /\ UploaderOff
  /\ data = <<>>
  /\ loadedData = <<>>
  /\ data_file_changes = <<>>
  /\ saves = <<>>

Init ==
  /\ currentOrganization \in Organizations \cup {NoOrganization}
  /\ OrganizationsOff
  /\ TypeChecksOff
  /\ StoreInit
  /\ PipelineIdle
  /\ ExtractionOff
  /\ EditOff
  /\ ClientOff

Next ==
  \/ \E u \in 1 .. MaxCalls, file \in Files : UploadInsert(u, file)
  \/ \E u \in 1 .. MaxCalls : UploadStore(u)
  \/ \E u \in 1 .. MaxCalls : UploadUpdate(u)
  \/ \E file \in Files, org \in Organizations : PreviewServe(file, org)
  \/ \E a \in 1 .. MaxCalls, fileId \in 1 .. Len(data_imports) + 1 :
       AnalyzeSelect(a, fileId)
  \/ \E a \in 1 .. MaxCalls : AnalyzeMarkAnalyzing(a)
  \/ \E a \in 1 .. MaxCalls : AnalyzeDownload(a)
  \/ \E a \in 1 .. MaxCalls : AnalyzeBatch(a)
  \/ \E a \in 1 .. MaxCalls : AnalyzeFinal(a)
  \/ \E a \in 1 .. MaxCalls : HandleError(a)

Spec == Init /\ [][Next]_vars

InitExtract ==
  /\ currentOrganization \in Organizations
  /\ OrganizationsOff
  /\ TypeChecksOff
  /\ PipelineInit
  /\ EditOff
  /\ ClientOff
  /\ \E n \in 0 .. MaxHeaders :
       \E h \in SeqsOf(HeaderNames, n) :
         \E d \in SeqsOf(SampleCells, n) \cup
                  (IF n > 0 THEN SeqsOf(SampleCells, n - 1) ELSE {}) :
           extraction = [pc |-> "input", headers |-> h, sampleData |-> d,
                         previewData |-> <<d>>, columns |-> <<>>]

NextExtract == ExtractPreview \/ ExtractAnalyze

SpecExtract == InitExtract /\ [][NextExtract]_vars

(* the preview handler on sheets of several data rows *)
PreviewCells == {NullCell, NumberCell(3, 0), StringCell("hello")}

InitSample ==
  /\ currentOrganization \in Organizations
  /\ OrganizationsOff
  /\ TypeChecksOff
  /\ PipelineInit
  /\ EditOff
  /\ ClientOff
  /\ \E n \in 1 .. MaxHeaders, m \in 1 .. MaxSampleRows :
       \E rows \in SeqsOf(SeqsOf(PreviewCells, n), m) :
         extraction = [pc |-> "input", headers |-> NamesRow(n),
                       sampleData |-> rows[1],
                       previewData |-> SubSeq(rows, 1, Min(m, SAMPLE_ROWS)),
                       columns |-> <<>>]

NextSample == ExtractPreview

SpecSample == InitSample /\ [][NextSample]_vars

InitEdit ==
  /\ currentOrganization \in Organizations \cup {NoOrganization}
  /\ OrganizationsOff
  /\ TypeChecksOff
  /\ PipelineInit
  /\ ExtractionOff
  /\ \E n \in 1 .. MaxPageRows :
       loadedData \in [1 .. n -> [EditColumns -> LoadedValues]]
  /\ data = loadedData
  /\ data_file_changes = <<>>
  /\ saves = <<>>
  /\ PageOff
  /\ PreviewOff
  /\ UploaderOff
  /\ ClientOff

NextEdit ==
  \/ \E r \in 1 .. MaxPageRows, c \in EditColumns, v \in TypedValues :
       OnChange(r, c, v)
  \/ \E r \in 1 .. MaxPageRows, c \in EditColumns : HandleSave(r, c)
  \/ \E k \in 1 .. MaxSaves : SaveInserted(k)
  \/ \E k \in 1 .. MaxSaves : SaveFailed(k)

SpecEdit == InitEdit /\ [][NextEdit]_vars

InitPage ==
  /\ currentOrganization \in Organizations
  /\ OrganizationsOff
  /\ TypeChecksOff
  /\ PipelineInit
  /\ ExtractionOff
  /\ data = <<>>
  /\ loadedData = <<>>
  /\ data_file_changes = <<>>
  /\ saves = <<>>
  /\ PreviewOff
  /\ UploaderOff
  /\ ClientOff
  /\ \E n \in 0 .. MaxTotalRows, p \in 1 .. MaxPage, size \in 1 .. MaxPageSize :
       pageFetch = [pc |-> "request", stored |-> n, page |-> p,
                    pageSize |-> size, fileData |-> NoPage]

NextPage == ReadFileData

SpecPage == InitPage /\ [][NextPage]_vars

(* the component is mounted with a fileId and its first fetchData is sent *)
InitPreview ==
  /\ currentOrganization \in Organizations
  /\ OrganizationsOff
  /\ TypeChecksOff
  /\ PipelineInit
  /\ ExtractionOff
  /\ data = <<>>
  /\ loadedData = <<>>
  /\ data_file_changes = <<>>
  /\ saves = <<>>
  /\ PageOff
  /\ UploaderOff
  /\ ClientOff
  /\ \E id \in PreviewFiles :
       /\ preview = [InitialPreview(id) EXCEPT !.loading = TRUE]
       /\ fetches = <<[fileId |-> id, page |-> 1, pc |-> "request"]>>

NextPreview ==
  \/ ClickPrevious
  \/ ClickNext
  \/ \E id \in PreviewFiles : SetFileId(id)
  \/ \E k \in 1 .. MaxFetches : FetchResponse(k)
  \/ \E k \in 1 .. MaxFetches : FetchFailed(k)

SpecPreview == InitPreview /\ [][NextPreview]_vars

(* the editor over the pages of the component *)
NextPreviewEdit ==
  \/ ClickNext
  \/ \E k \in 1 .. MaxFetches : FetchResponse(k)
  \/ \E r \in 1 .. MaxPageRows, c \in EditColumns : HandleSave(r, c)
  \/ \E k \in 1 .. MaxSaves : SaveInserted(k)
  \/ \E k \in 1 .. MaxSaves : SaveFailed(k)

SpecPreviewEdit == InitPreview /\ [][NextPreviewEdit]_vars

InitUploader ==
  /\ currentOrganization \in Organizations \cup {NoOrganization}
  /\ OrganizationsOff
  /\ TypeChecksOff
  /\ PipelineInit
  /\ ExtractionOff
  /\ EditOff
  /\ ClientOff

NextUploader ==
  \/ \E fileName \in UploadNames : UploaderUpload(fileName)
  \/ \E k \in 1 .. MaxFileUploads : UploaderInsert(k)
  \/ \E fileName \in UploadNames : ChatUpload(fileName)
  \/ \E k \in 1 .. MaxFileUploads : ChatInsert(k)
  \/ FetchFilesResponse

SpecUploader == InitUploader /\ [][NextUploader]_vars

(* ChatInterface is mounted in an organization that owns some files; the   *)
(* effect has sent the first fetchFiles                                    *)
InitChat ==
  /\ currentOrganization \in Organizations
  /\ OrganizationsOff
  /\ TypeChecksOff
  /\ PipelineInit
  /\ ExtractionOff
  /\ PageOff
  /\ PreviewOff
  /\ data = <<>>
  /\ loadedData = <<>>
  /\ data_file_changes = <<>>
  /\ saves = <<>>
  /\ ClientOff
  /\ \E n \in 1 .. MaxStoredFiles :
       data_files = [i \in 1 .. n |->
         [organization_id |-> currentOrganization, file_name |-> "data.xlsx",
          file_path |-> <<i, "xlsx">>, file_type |-> "excel",
          status |-> "pending"]]
  /\ dataFilesBucket = {<<data_files[i].file_path, "data.xlsx">> :
                          i \in DOMAIN data_files}
  /\ fileUploads = <<>>
  /\ deletedFiles = {}
  /\ files = <<>>
  /\ selectedFiles = <<>>
  /\ pendingFetches = 1

NextChat ==
  \/ FetchFilesResponse
  \/ \E fileId \in 1 .. MaxStoredFiles : HandleDeleteFile(fileId)
  \/ \E fileId \in 1 .. MaxStoredFiles : HandleToggleFileSelect(fileId)

SpecChat == InitChat /\ [][NextChat]_vars

(* The client holds no import, or the import its uploadFile call of the    *)
(* same session has stored; every analyze-file invocation is one the       *)
(* client's analyzeFile has made.                                          *)
InitClient ==
  /\ currentOrganization \in Organizations
  /\ OrganizationsOff
  /\ TypeChecksOff
  /\ StoreInit
  /\ data_imports # <<>>
  /\ PipelineIdle
  /\ ExtractionOff
  /\ EditOff
  /\ ClientIdle
  /\ loading = TRUE
  /\ currentImport \in {NoImport, <<1, data_imports[1]>>}

NextClient ==
  \/ \E a \in 1 .. MaxCalls, fileId \in 1 .. Len(data_imports) + 1 :
       AnalyzeSelect(a, fileId)
  \/ \E a \in 1 .. MaxCalls : AnalyzeMarkAnalyzing(a)
  \/ \E a \in 1 .. MaxCalls : AnalyzeDownload(a)
  \/ \E a \in 1 .. MaxCalls : AnalyzeBatch(a)
  \/ \E a \in 1 .. MaxCalls : AnalyzeFinal(a)
  \/ \E a \in 1 .. MaxCalls : HandleError(a)
  \/ \E a \in 1 .. MaxCalls : AnalyzeFileResponse(a)
  \/ \E a \in 1 .. MaxCalls : AnalyzeFileFetch(a)

SpecClient == InitClient /\ [][NextClient]_vars

(* the hook is mounted; the table holds the organizations of earlier       *)
(* sessions                                                                *)
InitOrganization ==
  /\ currentOrganization = NoOrganization
  /\ PipelineInit
  /\ ExtractionOff
  /\ EditOff
  /\ ClientOff
  /\ organizations \in {{}, {"acme"}, {"acme", "acme-1"}}
  /\ useOrganization = InitialUseOrganization
  /\ creations = [c \in 1 .. MaxCalls |-> IdleCreation]
  /\ TypeChecksOff

NextOrganization ==
  \/ \E c \in 1 .. MaxCalls, name \in OrganizationNames :
       CreateOrganization(c, name)
  \/ \E c \in 1 .. MaxCalls : GenerateUniqueSlug(c)
  \/ \E c \in 1 .. MaxCalls : CreateRpc(c)
  \/ \E c \in 1 .. MaxCalls : FetchOrganizations(c)

SpecOrganization == InitOrganization /\ [][NextOrganization]_vars

InitFileType ==
  /\ currentOrganization = NoOrganization
  /\ OrganizationsOff
  /\ PipelineInit
  /\ ExtractionOff
  /\ EditOff
  /\ ClientOff
  /\ typeChecks = <<>>

NextFileType == \E extension \in Extensions : GetFileTypes(extension)

SpecFileType == InitFileType /\ [][NextFileType]_vars

-----------------------------------------------------------------------------
(* Claims *)

ImportIds == DOMAIN data_imports
Started(a) == analyses[a].fileData # <<>>

(* C1: when an analyze invocation on an existing import record returns     *)
(* after any of its steps failed, the record's status is `error` and its   *)
(* error_message is non-null.                                              *)
C1_FailedAnalyzeEndsInError ==
  [][\A a \in 1 .. MaxCalls :
       (/\ Started(a)
        /\ analyses[a].pc # "done"
        /\ analyses'[a].pc = "done"
        /\ analyses'[a].status = 500)
       => /\ data_imports'[analyses[a].fileId].status = "error"
          /\ data_imports'[analyses[a].fileId].error_message # NoMessage]_vars

(* C2: once an import record's status is `error` or `editing`, no later    *)
(* operation changes its status.                                           *)
C2_TerminalStatusAbsorbing ==
  [][\A id \in ImportIds :
       data_imports[id].status \in {"error", "editing"}
       => data_imports'[id].status = data_imports[id].status]_vars

(* C3: in every reachable state, error_message is non-null if and only if  *)
(* status is `error`.                                                      *)
C3_ErrorMessageIffError ==
  \A id \in ImportIds :
    (data_imports[id].error_message # NoMessage)
    <=> (data_imports[id].status = "error")

(* C4: in every reachable state, storage_path is non-null if and only if   *)
(* the status is past `pending`.                                           *)
C4_StoragePathIffPastPending ==
  \A id \in ImportIds :
    (data_imports[id].storage_path # NoPath)
    <=> (data_imports[id].status # "pending")

(* C5: uploadFile inserts the record, stores the bytes at                  *)
(* {organizationId}/{importId}/{filename} and then updates the record, in  *)
(* this order; when all three succeed, the record it gets back has status  *)
(* `processing` and exactly that storage_path, and the call returns the id *)
(* of the record it created.                                               *)
C5_UploadOrderAndResult ==
  \A u \in 1 .. MaxCalls :
    LET up == uploads[u]
        path == <<currentOrganization, up.id, up.file.name>>
    IN /\ up.pc = "store" => up.trace = <<"insert">>
       /\ up.pc = "update" =>
            /\ up.trace = <<"insert", "store">>
            /\ <<path, up.file>> \in storage
       /\ up.pc = "done" =>
            /\ up.trace = <<"insert", "store", "update">>
            /\ up.id \in ImportIds
            /\ <<path, up.file>> \in storage
            /\ up.updatedImport # <<>>
            /\ up.updatedImport[1].status = "processing"
            /\ up.updatedImport[1].storage_path = path
            /\ up.updatedImport[1].name = up.file.name
            /\ data_imports[up.id].storage_path = path
            /\ up.returned = up.id

C5_Witness ==
  \E u \in 1 .. MaxCalls :
    /\ uploads[u].pc = "done"
    /\ data_imports[uploads[u].id].status = "processing"

(* C6: if the byte-storage step of uploadFile fails, the call issues no    *)
(* update and rethrows the storage error, and the record it created keeps  *)
(* a null storage_path and stays `pending` (only an analyze invocation on  *)
(* that id, never the upload, can have written another status).            *)
C6_StoreFailureLeavesPending ==
  \A u \in 1 .. MaxCalls :
    LET up == uploads[u]
    IN "store-failed" \in {up.trace[k] : k \in DOMAIN up.trace} =>
         /\ up.pc = "failed"
         /\ up.thrown = "uploadError"
         /\ up.trace = <<"insert", "store-failed">>
         /\ up.returned = NoId
         /\ up.updatedImport = <<>>
         /\ data_imports[up.id].storage_path = NoPath
         /\ data_imports[up.id].status # "processing"
         /\ \/ data_imports[up.id].status = "pending"
            \/ \E a \in 1 .. MaxCalls :
                 /\ analyses[a].fileId = up.id
                 /\ analyses[a].pc \notin {"idle", "markAnalyzing"}

C6_Witness ==
  \E u \in 1 .. MaxCalls :
    /\ uploads[u].thrown = "uploadError"
    /\ data_imports[uploads[u].id].status = "pending"
    /\ data_imports[uploads[u].id].storage_path = NoPath

(* C7: an analyze invocation writes `editing` only after every column      *)
(* batch has been persisted; at that point row_count equals the number of  *)
(* data rows of the file and the descriptors it persisted are exactly one  *)
(* per header column, in header order.                                     *)
C7_EditingAfterAllBatches ==
  \A a \in 1 .. MaxCalls :
    (analyses[a].pc = "done" /\ analyses[a].status = 200) =>
      /\ analyses[a].i >= Len(analyses[a].file.headers)
      /\ analyses[a].rowCount = analyses[a].file.nRows
      /\ data_imports[analyses[a].fileId].row_count = analyses[a].file.nRows
      /\ analyses[a].inserted = analyses[a].file.headers

(* C8: for every header row with n columns, schema extraction returns      *)
(* exactly n descriptors, the i-th carrying the i-th header name.          *)
C8_ExtractInHeaderOrder ==
  extraction.pc \in {"preview", "analyze"} =>
    /\ Len(extraction.columns) = Len(extraction.headers)
    /\ \A i \in DOMAIN extraction.columns :
         DescriptorName(extraction.columns[i]) = extraction.headers[i]

(* the rules of the claim, first match wins *)
ClaimedType(sample) ==
  CASE sample.t \in {"null", "undefined"} -> "text"
    [] sample.t = "number" /\ sample.frac = 0 -> "integer"
    [] sample.t = "number" /\ sample.frac # 0 -> "numeric"
    [] sample.t = "boolean" -> "boolean"
    [] sample.t = "string" /\ DateParses(sample.s) -> "timestamp"
    [] OTHER -> "text"

(* C9: type classification is total, returns one of the five type tags     *)
(* and follows the rules: null or missing -> text, number without          *)
(* fraction -> integer, number with fraction -> numeric, boolean ->        *)
(* boolean, string that parses as a date -> timestamp, otherwise text.     *)
C9_ClassifyFollowsRules ==
  extraction.pc = "preview" =>
    \A i \in DOMAIN extraction.columns :
      /\ extraction.columns[i].type \in TypeTags
      /\ extraction.columns[i].type =
           ClaimedType(SampleAt(extraction.sampleData, i))

C9_Witness ==
  /\ extraction.pc = "preview"
  /\ Len(extraction.columns) = 2
  /\ extraction.sampleData = <<BooleanCell(FALSE), StringCell("2024-01-01")>>
  /\ extraction.columns[1].type = "boolean"
  /\ extraction.columns[2].type = "timestamp"

(* C10: every cell edit produces exactly one audit record, written before  *)
(* any visible change of the cell: a cell never shows a value other than   *)
(* the loaded one without an audit record of that change.                  *)
C10_AuditBeforeVisibleChange ==
  /\ \A r \in DOMAIN data, c \in EditColumns :
       Displayed(data[r][c]) # Displayed(loadedData[r][c]) =>
         \E k \in DOMAIN data_file_changes :
           /\ data_file_changes[k].row_id = ToString(r - 1)
           /\ data_file_changes[k].column_name = c
           /\ data_file_changes[k].new_value = Displayed(data[r][c])
  /\ Len(data_file_changes) =
       Cardinality({k \in DOMAIN saves : saves[k].pc \in {"saved", "failed"}})

(* the saves of one cell that reached the insert request, before save k *)
EarlierSaves(k) ==
  {j \in 1 .. k - 1 : /\ saves[j].pc # "no-organization"
                      /\ saves[j].row = saves[k].row
                      /\ saves[j].change.column_name = saves[k].change.column_name}

(* C11: the audit record of a cell edit carries as old_value the value the *)
(* cell held before the user started that edit (the loaded value, or the   *)
(* new value of the previous edit of that cell) and as new_value the value *)
(* left in the cell: what it displayed before, or what was typed.          *)
C11_OldValueIsValueBeforeEdit ==
  \A k \in DOMAIN saves :
    saves[k].pc \in {"insert", "saved", "failed"} =>
      LET change == saves[k].change
          before == IF EarlierSaves(k) = {}
                    THEN loadedData[saves[k].row][change.column_name]
                    ELSE saves[CHOOSE j \in EarlierSaves(k) :
                                 \A i \in EarlierSaves(k) : i <= j].change.new_value
      IN /\ change.old_value = before
         /\ change.new_value \in {Displayed(before)} \cup TypedValues

(* C12: for an import of totalRows rows and a request (p, size) with       *)
(* p >= 1 and size >= 1, totalPages = ceil(totalRows / size); a page past  *)
(* totalPages is empty; a page in range holds                              *)
(* min(size, totalRows - (p - 1) * size) rows.                             *)
C12_PageCounts ==
  pageFetch.pc = "response" =>
    LET p == pageFetch.page
        size == pageFetch.pageSize
        totalRows == pageFetch.stored
        res == pageFetch.fileData
    IN /\ res.totalRows = totalRows
       /\ res.totalPages * size >= totalRows
       /\ (res.totalPages - 1) * size < totalRows \/ res.totalPages = 0
       /\ p > res.totalPages => res.rows = <<>>
       /\ p <= res.totalPages =>
            Len(res.rows) = Min(size, totalRows - (p - 1) * size)

C12_Witness ==
  /\ pageFetch.pc = "response"
  /\ pageFetch.stored = 5
  /\ pageFetch.pageSize = 2
  /\ pageFetch.page = 3
  /\ Len(pageFetch.fileData.rows) = 1
  /\ pageFetch.fileData.totalPages = 3

(* the stored file of import id decodes to fewer than a header row plus    *)
(* one data row                                                            *)
EmptyImport(id) ==
  \E b \in storage :
    /\ b[1] = data_imports[id].storage_path
    /\ b[2].bytes = "workbook"
    /\ SheetRowCount(b[2]) < 2

EmptyFileMessage ==
  <<"File must contain at least a header row and one data row">>

(* C13: a file with fewer than a header row plus one data row is rejected  *)
(* as empty: the preview handler answers with an error and creates no      *)
(* import record; an analyze invocation on such an import returns with the *)
(* import in status `error`, having persisted no descriptor and not        *)
(* having written `editing`.                                               *)
C13_EmptyFileRejected ==
  [][/\ (previewResponse' # previewResponse
         /\ previewResponse'.error = EmptyFileMessage)
        => (previewResponse'.status = 400 /\ data_imports' = data_imports)
     /\ \A a \in 1 .. MaxCalls :
          (/\ Started(a)
           /\ EmptyImport(analyses[a].fileId)
           /\ analyses[a].pc # "done"
           /\ analyses'[a].pc = "done")
          => /\ data_imports'[analyses[a].fileId].status = "error"
             /\ analyses'[a].inserted = <<>>
             /\ analyses'[a].status # 200]_vars

DeclaredAccess(id) ==
  UploaderGetFileType(Extension(data_imports[id].name)) = "access"

UnsupportedFormatMessage == <<"Tipo de arquivo nao suportado">>

(* C14: an analyze invocation on an import whose declared file type is     *)
(* `access` never reaches `editing`: once it has the file, it persists no  *)
(* descriptor, fails as an unsupported format, and the import ends in      *)
(* status `error` with that message.                                       *)
C14_AccessNeverEditing ==
  \A a \in 1 .. MaxCalls :
    (/\ Started(a)
     /\ DeclaredAccess(analyses[a].fileId)
     /\ analyses[a].file # NoFile) =>
      /\ analyses[a].pc \notin {"batch", "final"}
      /\ analyses[a].inserted = <<>>
      /\ analyses[a].pc = "handleError" =>
           analyses[a].errorMessage = UnsupportedFormatMessage
      /\ analyses[a].pc = "done" =>
           /\ analyses[a].status = 500
           /\ data_imports[analyses[a].fileId].status = "error"
           /\ data_imports[analyses[a].fileId].error_message =
                UnsupportedFormatMessage

(* an extension neither upload handler takes for a known kind *)
Unrecognized(fileName) ==
  /\ UploaderGetFileType(Extension(fileName)) = "throw"
  /\ ChatGetFileType(Extension(fileName)) = NoFileType

(* C15: for a file whose extension is not a recognized kind, each upload   *)
(* handler rejects the upload before storage: the blob store holds no blob *)
(* of the file and the table holds no record of it.                        *)
C15_UnknownExtensionRejectedBeforeStorage ==
  /\ \A b \in dataFilesBucket : ~Unrecognized(b[2])
  /\ \A k \in DOMAIN data_files : ~Unrecognized(data_files[k].file_name)

(* C16: when the client's analyzeFile call completes for an import whose   *)
(* analysis failed on the server, currentImport is that import, with       *)
(* status `error` and its error_message.                                   *)
C16_ClientShowsError ==
  [][\A a \in 1 .. MaxCalls :
       (/\ Started(a)
        /\ analyses[a].status = 500
        /\ analyzeFileCalls[a] \notin {"caught", "done"}
        /\ analyzeFileCalls'[a] \in {"caught", "done"})
       => /\ currentImport' # NoImport
          /\ currentImport'[1] = analyses[a].fileId
          /\ currentImport'[2].status = "error"
          /\ currentImport'[2].error_message # NoMessage]_vars

IsPrefix(s, t) == Len(s) <= Len(t) /\ s = SubSeq(t, 1, Len(s))

(* C17: within one analyze invocation the batches are inserted one after   *)
(* another in header-column order, each of at most 25 descriptors, and the *)
(* descriptors the invocation has persisted so far always form a prefix of *)
(* the header column sequence whose length is a multiple of 25 or the full *)
(* column count.                                                           *)
C17_BatchesFormHeaderPrefix ==
  [][\A a \in 1 .. MaxCalls :
       LET before == analyses[a].inserted
           after == analyses'[a].inserted
           headers == analyses'[a].file.headers
       IN /\ IsPrefix(before, after)
          /\ Len(after) - Len(before) <= BATCH_SIZE
          /\ IsPrefix(after, headers)
          /\ Len(after) % BATCH_SIZE = 0 \/ Len(after) = Len(headers)]_vars

BatchFailed(a) ==
  analyses[a].pc = "handleError" /\ analyses[a].error = <<"batchError">>

BatchErrorMessage == <<"Erro ao processar colunas: ", "batchError">>

(* C18: if the insert of a column batch fails, the descriptors of the      *)
(* earlier batches stay persisted unchanged, the invocation attempts no    *)
(* further batch and never writes `editing`, and it returns with the       *)
(* import in status `error` and a message that contains the insert error.  *)
C18_BatchFailureKeepsEarlierBatches ==
  [][\A a \in 1 .. MaxCalls :
       /\ IsPrefix(data_file_columns, data_file_columns')
       /\ (analyses[a].pc = "batch" /\ analyses'[a].pc = "handleError")
          => /\ data_file_columns' = data_file_columns
             /\ analyses'[a].inserted = analyses[a].inserted
       /\ BatchFailed(a)
          => /\ analyses'[a].pc \in {"handleError", "done"}
             /\ analyses'[a].inserted = analyses[a].inserted
             /\ analyses'[a].pc = "done"
                => /\ analyses'[a].status = 500
                   /\ data_imports'[analyses[a].fileId].status = "error"
                   /\ data_imports'[analyses[a].fileId].error_message =
                        BatchErrorMessage]_vars

(* C19: whatever the sequence or interleaving of analyze invocations on    *)
(* one import id, the persisted descriptors of that import hold at most    *)
(* one descriptor per detected column.                                     *)
C19_OneDescriptorPerColumn ==
  \A j, k \in DOMAIN data_file_columns :
    (/\ data_file_columns[j].file_id = data_file_columns[k].file_id
     /\ data_file_columns[j].original_name = data_file_columns[k].original_name)
    => j = k

(* the first value at position index among the rows that is not null *)
FirstNonNull(rows, index) ==
  LET at == {r \in DOMAIN rows :
               SampleAt(rows[r], index).t \notin {"null", "undefined"}}
  IN IF at = {} THEN NullCell
     ELSE SampleAt(rows[CHOOSE r \in at : \A q \in at : r <= q], index)

(* C20: for each header position, the sample of the descriptor and of its  *)
(* type classification is the first non-null value at that position among  *)
(* the sample rows.                                                        *)
C20_SampleIsFirstNonNull ==
  extraction.pc = "preview" =>
    \A i \in DOMAIN extraction.columns :
      LET sample == FirstNonNull(extraction.previewData, i)
      IN /\ extraction.columns[i].sample = SampleText(sample)
         /\ extraction.columns[i].type = Classify(sample)

Contains(message, part) ==
  \E i \in 1 .. Len(message) - Len(part) + 1 :
    SubSeq(message, i, i + Len(part) - 1) = part

DecoderThrew(a) ==
  analyses[a].error # NoMessage /\ analyses[a].error[1] = "decoder"

(* C21: when decoding the stored bytes raises a format-level error during  *)
(* analyze, the message the invocation records contains the decoder's own  *)
(* error message, and the invocation returns with the import in status     *)
(* `error` and that message in error_message.                              *)
C21_DecoderMessagePreserved ==
  \A a \in 1 .. MaxCalls :
    DecoderThrew(a) =>
      /\ Contains(analyses[a].errorMessage, analyses[a].error)
      /\ analyses[a].pc = "done" =>
           /\ data_imports[analyses[a].fileId].status = "error"
           /\ Contains(data_imports[analyses[a].fileId].error_message,
                       analyses[a].error)

(* C22: the cell-edit audit log is append-only: every step keeps every     *)
(* audit record written so far, with the same file id, row id, column      *)
(* name, old value, new value and organization id, and only adds records.  *)
C22_AuditLogAppendOnly ==
  [][IsPrefix(data_file_changes, data_file_changes')]_vars

C22_Witness ==
  /\ Len(data_file_changes) = 2
  /\ data_file_changes[1] # data_file_changes[2]

(* C23: an analyze invocation for an import id that has no record fails    *)
(* with an error response and performs no write: no status update, no      *)
(* descriptor insert, no blob access.                                      *)
C23_MissingImportNoWrite ==
  [][\A a \in 1 .. MaxCalls :
       /\ (/\ analyses[a].pc = "idle"
           /\ analyses'[a].pc # "idle"
           /\ analyses'[a].fileId \notin DOMAIN data_imports)
          => /\ analyses'[a].pc = "done"
             /\ analyses'[a].status = 500
             /\ analyses'[a].error # NoMessage
             /\ analyses'[a].file = NoFile
             /\ analyses'[a].inserted = <<>>
             /\ data_imports' = data_imports
             /\ data_file_columns' = data_file_columns
             /\ storage' = storage
       /\ (analyses[a].pc = "done" /\ ~Started(a))
          => analyses'[a] = analyses[a]]_vars

C23_Witness ==
  \E a \in 1 .. MaxCalls :
    /\ analyses[a].pc = "done"
    /\ analyses[a].status = 500
    /\ analyses[a].fileId \notin DOMAIN data_imports
    /\ data_imports # <<>>

(* C24: two saved edits to distinct rows of one file, distinct by the row  *)
(* number the table shows (for instance the first row of page 1 and the    *)
(* first row of page 2), carry distinct row_id values in the audit log.    *)
C24_DistinctRowsDistinctRowIds ==
  \A j, k \in DOMAIN saves :
    (/\ saves[j].pc = "saved"
     /\ saves[k].pc = "saved"
     /\ saves[j].change.file_id = saves[k].change.file_id
     /\ saves[j].rowNumber # saves[k].rowNumber)
    => saves[j].change.row_id # saves[k].change.row_id

(* every fetchData call has returned and the one sent last succeeded *)
FetchesSettled ==
  /\ fetches # <<>>
  /\ \A k \in DOMAIN fetches : fetches[k].pc # "request"
  /\ fetches[Len(fetches)].pc = "done"

(* C25: after any sequence of previous/next clicks, fetch completions and  *)
(* fileId changes, 1 <= page <= max(1, totalPages) for the file shown.     *)
C25_PageWithinRange ==
  FetchesSettled =>
    /\ 1 <= preview.page
    /\ preview.page <= Max(1, preview.totalPages)

(* the rows read-file-data holds for a page of an import *)
RowsOfPage(id, p) ==
  LET fileData == GetPage(StoredRows(StoredCount(id)), p, rowsPerPage)
  IN [i \in 1 .. Len(fileData.rows) |-> RowOf(id, fileData.rows[i])]

(* C26: whenever no fetch is in flight, the rows displayed are those of    *)
(* the current page of the current fileId, whatever the order in which     *)
(* the responses arrived.                                                  *)
C26_DisplayedRowsAreCurrentPage ==
  FetchesSettled => data = RowsOfPage(preview.fileId, preview.page)

(* the uploadFile and analyzeFile calls that have started and not finished *)
CallsInFlight ==
  {<<"uploadFile", u>> : u \in {v \in DOMAIN uploads :
                                  uploads[v].pc \in {"store", "update"}}}
  \cup {<<"analyzeFile", a>> : a \in {b \in DOMAIN analyzeFileCalls :
                                  analyzeFileCalls[b] \in {"invoke", "fetch"}}}

(* C27: the loading flag of the data-import context is true whenever at    *)
(* least one uploadFile or analyzeFile call is in flight, overlapping      *)
(* calls included, and false once all of them have finished.               *)
C27_LoadingWhileInFlight ==
  loading = (CallsInFlight # {})

(* the set of the ids of a list *)
Ids(list) == {list[i] : i \in DOMAIN list}

(* the list shown is the one the table holds and no refresh is pending *)
ListUpToDate ==
  /\ pendingFetches = 0
  /\ files = SelectFiles(currentOrganization)

C28_NoDuplicates ==
  \A i, j \in DOMAIN selectedFiles :
    selectedFiles[i] = selectedFiles[j] => i = j

C28_ToggleTwiceRestores ==
  \A fileId \in 1 .. MaxStoredFiles :
    Ids(Toggle(Toggle(selectedFiles, fileId), fileId)) = Ids(selectedFiles)

(* C28: after any sequence of toggles, deletions and refreshes, every id   *)
(* in selectedFiles refers to an existing file, no id is selected twice,   *)
(* and toggling one id twice gives back the selection there was.           *)
C28_SelectionRefersToFiles ==
  /\ ListUpToDate => Ids(selectedFiles) \subseteq Ids(files)
  /\ C28_NoDuplicates
  /\ C28_ToggleTwiceRestores

(* the createOrganization calls that have called the procedure *)
PassedSlug(c) == creations[c].p_slug # NoSlug

(* the procedure has stored the organization of call c *)
Created(c) == creations[c].pc \in {"fetch", "done"}

(* C29: two createOrganization calls running concurrently with the same    *)
(* name never pass the same slug to create_organization_with_owner.  A     *)
(* call that passes the slug another call has had stored made its select   *)
(* before that row was stored, so the two calls overlapped.                *)
C29_ConcurrentCreationsDistinctSlugs ==
  \A c, d \in 1 .. MaxCalls :
    (/\ c # d
     /\ Created(c)
     /\ PassedSlug(d)
     /\ creations[c].name = creations[d].name)
    => creations[c].p_slug # creations[d].p_slug

FileKinds == {"csv", "excel", "access", "json"}

(* C30: for every extension, getFileType of FileUploader and getFileType   *)
(* of ChatInterface either both reject it or both return the same kind     *)
(* among csv, excel, access, json.                                         *)
C30_FileTypeMappingsAgree ==
  \A i \in DOMAIN typeChecks :
    \/ /\ typeChecks[i].uploader = "throw"
       /\ typeChecks[i].chat = NoFileType
    \/ /\ typeChecks[i].uploader \in FileKinds
       /\ typeChecks[i].uploader = typeChecks[i].chat

====
